---- MODULE Spec2Model ----
(***************************************************************************)
(* A model of nock.py, a Nock interpreter: noun construction (_t, _aorc),  *)
(* slot addressing (_fas), the axiomatic primitives (_wut, _lus, _tis),    *)
(* the reduction engine (_tar) and the public wrappers built by _public.   *)
(*                                                                         *)
(* Python values are tagged tuples: the int n is <<"a", n>>, the tuple     *)
(* (x1, ..., xk) is <<"t", x1, ..., xk>> and None is <<"None">>.  A call   *)
(* yields a record: k is "val" for a normal return and otherwise the name  *)
(* of the exception that left the call, v is the returned value, and       *)
(* caught records whether an exception was raised and swallowed by an      *)
(* except clause on the way.  DEBUG_LEVEL is the global indentation        *)
(* counter of the debug output; lowest and highest record the values it    *)
(* took during the call.                                                   *)
(***************************************************************************)
EXTENDS Integers, Sequences, FiniteSets, TLC

VARIABLES fn, arg, res, DEBUG_LEVEL, lowest, highest

vars == <<fn, arg, res, DEBUG_LEVEL, lowest, highest>>

\* ---------------------------------------------------------------- bounds
\* Nesting depth of tar calls after which Python raises RuntimeError
\* (maximum recursion depth exceeded).
MaxDepth == 11

\* Nesting depth of _fas calls after which Python raises RuntimeError.
MaxFasDepth == 6

\* Largest slot address given to the public fas.
MaxAddr == 15

\* Largest atom in the generated argument nouns of fas, wut, lus and tis.
MaxAtom == 1

\* Largest opcode tried at the dispatch point (opcodes above 10 are invalid).
MaxOp == 12

\* Longest argument list given to _t.
MaxLen == 3

\* Addresses down to -MaxNeg are given to the public fas.
MaxNeg == 2

\* ---------------------------------------------------------------- values
I(n) == <<"a", n>>

T(elems) == <<"t">> \o elems

None == <<"None">>

NoValue == <<"-">>

IsInt(x) == x[1] = "a"

IsTuple(x) == x[1] = "t"

Elems(x) == Tail(x)

Val(v, c) == [k |-> "val", v |-> v, caught |-> c]

Raise(e, c) == [k |-> e, v |-> NoValue, caught |-> c]

YES == 0

NO == 1

OP_FAS == 0

OP_CON == 1

OP_TAR == 2

OP_WUT == 3

OP_LUS == 4

OP_TIS == 5

OP_IF == 6

OP_H07 == 7

OP_H08 == 8

OP_H09 == 9

OP_H10 == 10

\* ---------------------------------------------------- noun construction
RECURSIVE _t(_), _aorc(_)

\* _aorc(a): an int is returned as it is, an iterable is restructured.
_aorc(a) == IF IsTuple(a) THEN _t(Elems(a)) ELSE a

\* _t with 1 for the trailing 0 of a single argument.
TTrailingOne(lst) ==
    CASE Len(lst) = 1 -> <<"t", _aorc(lst[1]), I(1)>>
      [] Len(lst) = 2 -> <<"t", _aorc(lst[1]), _aorc(lst[2])>>
      [] OTHER -> <<"t", _aorc(lst[1]), _t(Tail(lst))>>

\* _t(*lst): right-associate the argument list into nested pairs; a single
\* argument gets a trailing 0.  lst is never empty here.
_t(lst) ==
    CASE Len(lst) = 1 -> <<"t", _aorc(lst[1]), I(0)>>
      [] Len(lst) = 2 -> <<"t", _aorc(lst[1]), _aorc(lst[2])>>
      [] OTHER -> <<"t", _aorc(lst[1]), _t(Tail(lst))>>

\* ------------------------------------------------------------ primitives
_wut(noun) == IF IsInt(noun) THEN I(NO) ELSE I(YES)

_lus(noun) == IF IsInt(noun) THEN I(1 + noun[2]) ELSE noun

\* noun[0] == noun[1]; indexing an int raises TypeError.
_tis(noun) ==
    IF IsInt(noun) THEN Raise("TypeError", FALSE)
    ELSE Val(IF noun[2] = noun[3] THEN I(YES) ELSE I(NO), FALSE)

\* -------------------------------------------------------- slot addressing
\* r, reached after calls whose exceptions-caught flag is c.
After(c, r) == [r EXCEPT !.caught = @ \/ c]

\* except TypeError: return noun
FasHandler(noun) == Val(noun, TRUE)

\* FasIndex with head and tail taken for each other.
FasIndexSwapped(noun, i) ==
    IF IsInt(noun) THEN FasHandler(noun) ELSE Val(noun[5 - i], FALSE)

\* noun[0] for i = 2 and noun[1] for i = 3, inside the try block: indexing
\* an int raises TypeError, which the handler catches.
FasIndex(noun, i) ==
    IF IsInt(noun) THEN FasHandler(noun) ELSE Val(noun[i], FALSE)

RECURSIVE _fas(_, _, _)

\* FasNested returning the noun for an inner address of 0 or less.
FasNestedStopAtZero(m, k, noun, d) ==
    IF m <= 0 THEN Val(noun, FALSE)
    ELSE LET inner == _fas(I(m), noun, d) IN
         CASE inner.k = "TypeError" -> FasHandler(noun)
           [] inner.k \notin {"val", "TypeError"} -> inner
           [] OTHER ->
                LET outer == _fas(I(k), inner.v, d) IN
                IF outer.k = "TypeError" THEN FasHandler(noun)
                ELSE After(inner.caught, outer)

\* _fas((2, _fas((m, noun)))) for k = 2 and _fas((3, _fas((m, noun)))) for
\* k = 3, inside the try block.
FasNested(m, k, noun, d) ==
    LET inner == _fas(I(m), noun, d) IN
    CASE inner.k = "TypeError" -> FasHandler(noun)
      [] inner.k \notin {"val", "TypeError"} -> inner
      [] OTHER ->
           LET outer == _fas(I(k), inner.v, d) IN
           IF outer.k = "TypeError" THEN FasHandler(noun)
           ELSE After(inner.caught, outer)

\* _fas((n, noun)) with d nested _fas calls left before RuntimeError.  The
\* branches are inside try/except TypeError; n % 2 on a tuple raises it.
_fas(n, noun0, d) ==
    CASE d = 0 -> Raise("RuntimeError", FALSE)
      [] d > 0 /\ ~IsInt(n) -> FasHandler(_aorc(noun0))
      [] d > 0 /\ n = I(1) -> Val(_aorc(noun0), FALSE)
      [] d > 0 /\ n = I(2) -> FasIndex(_aorc(noun0), 2)
      [] d > 0 /\ n = I(3) -> FasIndex(_aorc(noun0), 3)
      [] d > 0 /\ IsInt(n) /\ n[2] \notin {1, 2, 3} /\ n[2] % 2 = 0 ->
           FasNested(n[2] \div 2, 2, _aorc(noun0), d - 1)
      [] OTHER -> FasNested((n[2] - 1) \div 2, 3, _aorc(noun0), d - 1)

\* ------------------------------------------------------- public wrappers
RECURSIVE _r(_)

\* _r(noun): "ok" when the repr can be built, "TypeError" when the noun
\* holds None, which is neither an int nor iterable.
_r(noun) ==
    CASE IsInt(noun) -> "ok"
      [] noun = None -> "TypeError"
      [] OTHER -> IF \E i \in 2..Len(noun) : _r(noun[i]) = "TypeError"
                  THEN "TypeError" ELSE "ok"

\* _public without the rendering of the result.
PublicUnrendered(noun, result) == result

\* The wrapper made by _public: render the argument, call the original
\* function, render the result, return the result.
_public(noun, result) ==
    CASE _r(noun) = "TypeError" -> Raise("TypeError", FALSE)
      [] result.k # "val" -> result
      [] _r(result.v) = "TypeError" -> Raise("TypeError", result.caught)
      [] OTHER -> result

\* The public functions take the caught flag c of the calls made before
\* them and return it joined with their own.
wut(noun, c) == _public(noun, Val(_wut(noun), c))

lus(noun, c) == _public(noun, Val(_lus(noun), c))

tis(noun, c) == _public(noun, After(c, _tis(noun)))

\* fas takes the pair (n, noun); an int argument cannot be unpacked.
fas(pair, c) ==
    _public(pair, IF IsInt(pair) THEN Raise("TypeError", c)
                  ELSE After(c, _fas(pair[2], pair[3], MaxFasDepth)))

\* ------------------------------------------------------ reduction engine
\* The private _fas as _tar calls it to carve up a noun.
Slot(n, x) == _fas(I(n), x, MaxFasDepth)

RECURSIVE tar(_, _, _), _tar(_, _, _)

\* Rule 19 with the second half reduced against the product of the first.
Rule19Chained(subj, op, obj, d, c) ==
    LET r1 == tar(T(<<subj, op>>), d, c) IN
    IF r1.k # "val" THEN r1
    ELSE LET r2 == tar(T(<<r1.v, obj>>), d, r1.caught) IN
         IF r2.k # "val" THEN r2
         ELSE Val(T(<<r1.v, r2.v>>), r2.caught)

\* 19 :: *[a [b c] d]  [*[a b c] *[a d]]
\* return (tar((subj, op)), tar((subj, obj))), evaluated left to right.
Rule19(subj, op, obj, d, c) ==
    LET r1 == tar(T(<<subj, op>>), d, c) IN
    IF r1.k # "val" THEN r1
    ELSE LET r2 == tar(T(<<subj, obj>>), d, r1.caught) IN
         IF r2.k # "val" THEN r2
         ELSE Val(T(<<r1.v, r2.v>>), r2.caught)

\* 21 :: *[a 0 b]  /[b a]
Rule21(subj, obj, c) == fas(T(<<obj, subj>>), c)

\* 22 :: *[a 1 b]  b
Rule22(obj, c) == Val(obj, c)

\* Rule 23 with the two products in each other's place.
Rule23Swapped(subj, obj, d, c) ==
    LET b  == Slot(2, obj)
        cc == Slot(3, obj)
        r1 == tar(T(<<subj, b.v>>), d, c \/ b.caught \/ cc.caught)
    IN  IF r1.k # "val" THEN r1
        ELSE LET r2 == tar(T(<<subj, cc.v>>), d, r1.caught) IN
             IF r2.k # "val" THEN r2
             ELSE tar(T(<<r2.v, r1.v>>), d, r2.caught)

\* 23 :: *[a 2 b c]  *[*[a b] *[a c]]
Rule23(subj, obj, d, c) ==
    LET b  == Slot(2, obj)
        cc == Slot(3, obj)
        r1 == tar(T(<<subj, b.v>>), d, c \/ b.caught \/ cc.caught)
    IN  IF r1.k # "val" THEN r1
        ELSE LET r2 == tar(T(<<subj, cc.v>>), d, r1.caught) IN
             IF r2.k # "val" THEN r2
             ELSE tar(T(<<r1.v, r2.v>>), d, r2.caught)

\* 24 :: *[a 3 b]  ?*[a b]
Rule24(subj, obj, d, c) ==
    LET r == tar(T(<<subj, obj>>), d, c) IN
    IF r.k # "val" THEN r ELSE wut(r.v, r.caught)

\* 25 :: *[a 4 b]  +*[a b]
Rule25(subj, obj, d, c) ==
    LET r == tar(T(<<subj, obj>>), d, c) IN
    IF r.k # "val" THEN r ELSE lus(r.v, r.caught)

\* 26 :: *[a 5 b]  =*[a b]
Rule26(subj, obj, d, c) ==
    LET r == tar(T(<<subj, obj>>), d, c) IN
    IF r.k # "val" THEN r ELSE tis(r.v, r.caught)

\* The tuple of rule 28 with the two branches in each other's place.
Macro28Swapped(a, b, c, d) ==
    T(<<a, I(2), T(<<I(0), I(1)>>), I(2), T(<<I(1), d, c>>),
        T(<<I(1), I(0)>>), I(2), T(<<I(1), I(2), I(3)>>), T(<<I(1), I(0)>>),
        I(4), I(4), b>>)

\* The tuple that rule 28 hands to tar.
Macro28(a, b, c, d) ==
    T(<<a, I(2), T(<<I(0), I(1)>>), I(2), T(<<I(1), c, d>>),
        T(<<I(1), I(0)>>), I(2), T(<<I(1), I(2), I(3)>>), T(<<I(1), I(0)>>),
        I(4), I(4), b>>)

\* 28 :: *[a 6 b c d]  *[a 2 [0 1] 2 [1 c d] [1 0] 2 [1 2 3] [1 0] 4 4 b]
Rule28(subj, obj, depth, cf) ==
    LET b == Slot(2, obj)
        c == Slot(6, obj)
        d == Slot(7, obj)
    IN  tar(Macro28(subj, b.v, c.v, d.v), depth,
            cf \/ b.caught \/ c.caught \/ d.caught)

\* The tuple that rule 29 hands to tar.
Macro29(subj, b, c) == T(<<subj, I(2), b, I(1), c>>)

\* 29 :: *[a 7 b c]  *[a 2 b 1 c]
Rule29(subj, obj, d, cf) ==
    LET b == Slot(2, obj)
        c == Slot(3, obj)
    IN  tar(Macro29(subj, b.v, c.v), d, cf \/ b.caught \/ c.caught)

\* The tuple of rule 30 with the product of b after the subject.
Macro30Reversed(subj, b, c) ==
    T(<<subj, I(7), T(<<T(<<I(0), I(1)>>), I(7), T(<<I(0), I(1)>>), b>>), c>>)

\* The tuple that rule 30 hands to tar.
Macro30(subj, b, c) ==
    T(<<subj, I(7), T(<<T(<<I(7), T(<<I(0), I(1)>>), b>>), I(0), I(1)>>), c>>)

\* 30 :: *[a 8 b c]  *[a 7 [[7 [0 1] b] 0 1] c]
Rule30(subj, obj, d, cf) ==
    LET b == Slot(2, obj)
        c == Slot(3, obj)
    IN  tar(Macro30(subj, b.v, c.v), d, cf \/ b.caught \/ c.caught)

\* The tuple of rule 31 with the core and its slot in each other's place.
Macro31Swapped(subj, b, c) ==
    T(<<subj, I(7), c, I(2), T(<<I(0), b>>), I(0), I(1)>>)

\* The tuple that rule 31 hands to tar.
Macro31(subj, b, c) ==
    T(<<subj, I(7), c, I(2), T(<<I(0), I(1)>>), I(0), b>>)

\* 31 :: *[a 9 b c]  *[a 7 c 2 [0 1] 0 b]
Rule31(subj, obj, d, cf) ==
    LET b == Slot(2, obj)
        c == Slot(3, obj)
    IN  tar(Macro31(subj, b.v, c.v), d, cf \/ b.caught \/ c.caught)

\* 32 :: *[a 10 [b c] d]  *[a 8 c 7 [0 3] d]: the code takes c from slot 2
\* of the hint and hands on obj as the last element.
Rule32(subj, obj, hint, d, cf) ==
    LET c == Slot(2, hint) IN
    tar(T(<<subj, I(8), c.v, I(7), T(<<I(0), I(3)>>), obj>>), d,
        cf \/ c.caught)

\* 33 :: *[a 10 b c]  *[a c]
Rule33(subj, obj, d, cf) ==
    LET c == Slot(3, obj) IN
    tar(T(<<subj, c.v>>), d, cf \/ c.caught)

\* The public tar with d nested tar calls left before RuntimeError
\* (maximum recursion depth exceeded).
tar(noun, d, c) ==
    IF d = 0 THEN Raise("RuntimeError", c)
    ELSE _public(noun, _tar(noun, d - 1, c))

\* _tar(noun): the nested reductions go through the public tar, fas, wut,
\* lus and tis.  An opcode that matches no branch falls off the end of the
\* function, which returns None.  _t(*noun) on an int raises TypeError.
_tar(noun0, d, c) ==
    IF IsInt(noun0) THEN Raise("TypeError", c)
    ELSE
    LET noun  == _t(Elems(noun0))
        subjR == Slot(2, noun)
        opR   == Slot(6, noun)
        objR  == Slot(7, noun)
        subj  == subjR.v
        op    == opR.v
        obj   == objR.v
        hint  == Slot(2, obj)
        c0    == c \/ subjR.caught \/ opR.caught \/ objR.caught
    IN  CASE _wut(op) = I(YES) -> Rule19(subj, op, obj, d, c0)
          [] op = I(OP_FAS) -> Rule21(subj, obj, c0)
          [] op = I(OP_CON) -> Rule22(obj, c0)
          [] op = I(OP_TAR) -> Rule23(subj, obj, d, c0)
          [] op = I(OP_WUT) -> Rule24(subj, obj, d, c0)
          [] op = I(OP_LUS) -> Rule25(subj, obj, d, c0)
          [] op = I(OP_TIS) -> Rule26(subj, obj, d, c0)
          [] op = I(OP_IF)  -> Rule28(subj, obj, d, c0)
          [] op = I(OP_H07) -> Rule29(subj, obj, d, c0)
          [] op = I(OP_H08) -> Rule30(subj, obj, d, c0)
          [] op = I(OP_H09) -> Rule31(subj, obj, d, c0)
          [] op = I(OP_H10) /\ _wut(hint.v) = I(YES) ->
                Rule32(subj, obj, hint.v, d, c0 \/ hint.caught)
          [] op = I(OP_H10) /\ _wut(hint.v) # I(YES) ->
                Rule33(subj, obj, d, c0 \/ hint.caught)
          [] OTHER -> Val(None, c0)

\* ----------------------------------------------------- debug indentation
\* The course of the global DEBUG_LEVEL through a call: k is "val" while
\* the code runs on and the exception once one is on its way out, lvl is
\* DEBUG_LEVEL, low and high are the lowest and highest values it took.
Running(level) == [k |-> "val", lvl |-> level, low |-> level, high |-> level]

Ends(k, t) == [t EXCEPT !.k = k]

Min(a, b) == IF a <= b THEN a ELSE b

Max(a, b) == IF a >= b THEN a ELSE b

\* _indent up to the yield: DEBUG_LEVEL += 1
Enter(t) == [t EXCEPT !.lvl = @ + 1, !.high = Max(@, t.lvl + 1)]

\* _indent with the decrement after the yield and no finally clause: an
\* exception of the body passes it by.
LeaveUnlessRaised(t, n) ==
    IF t.k # "val" THEN t
    ELSE [t EXCEPT !.lvl = @ - n, !.low = Min(@, t.lvl - n)]

\* _indent after the yield, for the n innermost with statements open when
\* their body ends in t: finally: DEBUG_LEVEL -= 1, on a return and on an
\* exception alike.
Leave(t, n) == [t EXCEPT !.lvl = @ - n, !.low = Min(@, t.lvl - n)]

\* The end of the wrapper made by _public, the original function having
\* returned result in t: with _indent(): _d(_r(result)).
WrapperEnd(t, result) ==
    Leave(Ends(IF _r(result) = "TypeError" THEN "TypeError" ELSE "val",
               Enter(t)), 1)

\* The public wut, lus, tis and fas, called in t unless an exception is
\* already on its way; result is what the private function returns or
\* raises, and the private function leaves DEBUG_LEVEL alone.
PrimitiveLevel(noun, result, t) ==
    CASE t.k # "val" -> t
      [] t.k = "val" /\ _r(noun) = "TypeError" -> Ends("TypeError", t)
      [] t.k = "val" /\ _r(noun) # "TypeError" /\ result.k # "val" ->
            Ends(result.k, t)
      [] OTHER -> WrapperEnd(t, result.v)

\* The tuple that rules 28 to 33 hand to tar.
Handed(subj, op, obj, hint) ==
    CASE op = I(OP_IF) ->
            Macro28(subj, Slot(2, obj).v, Slot(6, obj).v, Slot(7, obj).v)
      [] op = I(OP_H07) -> Macro29(subj, Slot(2, obj).v, Slot(3, obj).v)
      [] op = I(OP_H08) -> Macro30(subj, Slot(2, obj).v, Slot(3, obj).v)
      [] op = I(OP_H09) -> Macro31(subj, Slot(2, obj).v, Slot(3, obj).v)
      [] op = I(OP_H10) /\ _wut(hint) = I(YES) ->
            T(<<subj, I(8), Slot(2, hint).v, I(7), T(<<I(0), I(3)>>), obj>>)
      [] OTHER -> T(<<subj, Slot(3, obj).v>>)

\* What wut, lus or tis of rules 24, 25 and 26 returns or raises for r.
Primitive(op, r) ==
    CASE op = I(OP_WUT) -> Val(_wut(r), FALSE)
      [] op = I(OP_LUS) -> Val(_lus(r), FALSE)
      [] OTHER -> _tis(r)

RECURSIVE TarLevel(_, _, _, _), _tarLevel(_, _, _)

\* The public tar with d nested tar calls left, called in t unless an
\* exception is already on its way, and after it the end of the n innermost
\* with statements of the caller.
TarLevel(noun, d, t, n) ==
    CASE t.k # "val" -> Leave(t, n)
      [] t.k = "val" /\ d = 0 -> Leave(Ends("RuntimeError", t), n)
      [] t.k = "val" /\ d > 0 /\ _r(noun) = "TypeError" ->
            Leave(Ends("TypeError", t), n)
      [] OTHER ->
            LET inner == _tarLevel(noun, d - 1, t) IN
            IF inner.k # "val" THEN Leave(inner, n)
            ELSE Leave(WrapperEnd(inner, _tar(noun, d - 1, FALSE).v), n)

\* _tar entered in t: one with statement around the rules and a second
\* one inside rules 19, 23 and 28 to 33.
_tarLevel(noun0, d, t) ==
    IF IsInt(noun0) THEN Ends("TypeError", t)
    ELSE
    LET noun == _t(Elems(noun0))
        subj == Slot(2, noun).v
        op   == Slot(6, noun).v
        obj  == Slot(7, noun).v
        hint == Slot(2, obj).v
        b    == T(<<subj, Slot(2, obj).v>>)
        c    == T(<<subj, Slot(3, obj).v>>)
        t2   == Enter(Enter(t))
    IN  CASE _wut(op) = I(YES) ->
                TarLevel(T(<<subj, obj>>), d,
                         TarLevel(T(<<subj, op>>), d, t2, 0), 2)
          [] op = I(OP_FAS) ->
                Leave(PrimitiveLevel(T(<<obj, subj>>),
                                     _fas(obj, subj, MaxFasDepth),
                                     Enter(t)), 1)
          [] op = I(OP_TAR) ->
                TarLevel(T(<<tar(b, d, FALSE).v, tar(c, d, FALSE).v>>), d,
                         TarLevel(c, d, TarLevel(b, d, t2, 0), 0), 2)
          [] op \in {I(OP_WUT), I(OP_LUS), I(OP_TIS)} ->
                LET r == tar(T(<<subj, obj>>), d, FALSE).v IN
                Leave(PrimitiveLevel(r, Primitive(op, r),
                          TarLevel(T(<<subj, obj>>), d, Enter(t), 0)), 1)
          [] op \in {I(OP_IF), I(OP_H07), I(OP_H08), I(OP_H09), I(OP_H10)} ->
                TarLevel(Handed(subj, op, obj, hint), d, t2, 2)
          [] OTHER -> Leave(Enter(t), 1)

\* ------------------------------------------------------------- arguments
\* Nouns of depth at most n over the atoms 0..MaxAtom.
RECURSIVE Nouns(_)
Nouns(n) ==
    IF n = 0 THEN {I(a) : a \in 0..MaxAtom}
    ELSE LET S == Nouns(n - 1) IN S \cup {T(<<h, t>>) : h \in S, t \in S}

\* Depth of the generated nouns.
NounDepth == 2

\* The tree of the _fas doctest, in the flat notation of the doctest.
Tree == T(<<T(<<I(4), I(5)>>), T(<<I(6), I(14), I(15)>>)>>)

ArgNouns == Nouns(NounDepth) \cup {Tree}

Addresses == {I(n) : n \in -MaxNeg..MaxAddr} \cup {T(<<I(1), I(2)>>)}

FasArgs == {T(<<n, x>>) : n \in Addresses, x \in ArgNouns}

Subjects == {I(42), T(<<I(0), I(1)>>), Tree}

\* Formulas, written flat as in the doctests of _tar.
Tests ==
    { T(<<I(1), I(0)>>), T(<<I(1), I(1)>>), T(<<I(1), I(7)>>),
      T(<<I(1), I(2)>>), T(<<I(1), I(5), I(5)>>), T(<<I(0), I(1)>>),
      T(<<I(0), I(2)>>), T(<<I(0), I(3)>>), T(<<I(3), I(0), I(1)>>),
      T(<<I(11), I(5)>>), I(2) }

Branches ==
    { T(<<I(4), I(0), I(1)>>), T(<<I(1), I(233)>>), T(<<I(0), I(3)>>),
      T(<<I(5), I(0), I(1)>>), T(<<I(11), I(5)>>), I(2) }

Tags == { I(0), I(1), I(37), T(<<I(1), I(0)>>), T(<<I(0), I(2)>>) }

Rests ==
    { I(0), I(1), I(2), T(<<I(0), I(1)>>), T(<<I(1), I(2)>>),
      T(<<T(<<I(0), I(1)>>), T(<<I(1), I(1), I(5)>>)>>),
      T(<<I(2), I(1), T(<<I(1), I(5)>>), I(0)>>) }

\* Arguments of _t: atoms and the tuples of its doctests.
SeqElems ==
    {I(a) : a \in 0..MaxAtom}
    \cup { T(<<I(5)>>), T(<<I(4), I(0), I(1)>>),
           T(<<T(<<I(4), I(0), I(1)>>), T(<<I(3), I(0), I(1)>>)>>),
           T(<<I(1), I(2), I(3), I(4)>>) }

\* The argument lists of length 1..MaxLen, each held as a tuple.
FlatSeqs == {T(q) : q \in UNION {[1..n -> SeqElems] : n \in 1..MaxLen}}

\* Formulas (2, b, c), the first the doctest of rule 23.
Compositions ==
    { T(<<I(2), T(<<I(1), I(42)>>), T(<<I(1), I(1), I(153), I(218)>>)>>),
      T(<<I(2), T(<<I(1), I(5), I(7)>>), T(<<I(1), I(0), I(3)>>)>>),
      T(<<I(2), T(<<I(0), I(1)>>), T(<<I(1), I(4), I(0), I(1)>>)>>),
      T(<<I(2), T(<<I(0), I(1)>>), T(<<I(1), I(0), I(2)>>)>>),
      T(<<I(2), T(<<I(11), I(5)>>), T(<<I(1), I(0), I(1)>>)>>),
      T(<<I(2), T(<<I(0), I(1)>>), T(<<I(11), I(5)>>)>>) }

\* Formulas (8, b, c), the first the doctest of rule 30.
Pushes ==
    { T(<<I(8), T(<<I(4), I(0), I(1)>>), T(<<I(0), I(1)>>)>>),
      T(<<I(8), T(<<I(1), I(5)>>), T(<<I(0), I(2)>>)>>),
      T(<<I(8), T(<<I(1), I(5), I(7)>>), T(<<I(0), I(3)>>)>>),
      T(<<I(8), T(<<I(0), I(1)>>), T(<<I(4), I(0), I(2)>>)>>),
      T(<<I(8), T(<<I(3), I(0), I(1)>>),
              T(<<T(<<I(0), I(2)>>), T(<<I(0), I(3)>>)>>)>>),
      T(<<I(8), T(<<I(11), I(5)>>), T(<<I(0), I(1)>>)>>),
      T(<<I(8), T(<<I(0), I(1)>>), T(<<I(11), I(5)>>)>>) }

\* Formulas (9, b, c): c yields a core and b addresses a formula in it.
Invokes ==
    { T(<<I(9), I(2), T(<<I(1), T(<<I(4), I(0), I(3)>>), I(7)>>)>>),
      T(<<I(9), I(3), T(<<I(1), I(7), T(<<I(0), I(2)>>)>>)>>),
      T(<<I(9), I(6), T(<<I(1), I(7), T(<<I(1), I(9)>>), I(3)>>)>>),
      T(<<I(9), I(1), T(<<I(1), T(<<I(0), I(2)>>), T(<<I(1), I(5)>>)>>)>>),
      T(<<I(9), I(2), T(<<I(0), I(1)>>)>>),
      T(<<I(9), I(3), T(<<I(0), I(1)>>)>>),
      T(<<I(9), I(5), T(<<I(1), I(7), T(<<I(0), I(2)>>)>>)>>),
      T(<<I(9), I(0), T(<<I(1), I(7), T(<<I(0), I(2)>>)>>)>>),
      T(<<I(9), I(2), T(<<I(11), I(5)>>)>>) }

Formulas ==
    {I(f) : f \in 0..MaxOp}
    \cup Tests \cup Branches \cup Compositions \cup Pushes \cup Invokes
    \cup {T(<<I(op), rest>>) : op \in 0..MaxOp, rest \in Rests}
    \cup {T(<<I(6), b, c, d>>) : b \in Tests, c \in Branches, d \in Branches}
    \cup {T(<<I(10), T(<<g, c>>), d>>) :
              g \in Tags, c \in Branches, d \in Branches}
    \cup {T(<<I(10), I(37), d>>) : d \in Branches}
    \cup {T(<<b, c>>) : b \in (Tests \cup Branches) \ {I(2)}, c \in Branches}

TarArgs == {T(<<s, f>>) : s \in Subjects, f \in Formulas}

\* ---------------------------------------------------------- state machine
\* A state is one call of a public function or of the construction helper
\* _t: fn and arg are the function and its argument, res is Pending until
\* the call has run.  DEBUG_LEVEL is 0 when the module has been loaded.
Pending == [k |-> "pending", v |-> NoValue, caught |-> FALSE]

Init ==
    /\ \/ fn = "wut" /\ arg \in ArgNouns
       \/ fn = "lus" /\ arg \in ArgNouns
       \/ fn = "tis" /\ arg \in ArgNouns
       \/ fn = "fas" /\ arg \in FasArgs
       \/ fn = "tar" /\ arg \in TarArgs
       \/ fn = "_t" /\ arg \in FlatSeqs
    /\ res = Pending
    /\ DEBUG_LEVEL = 0
    /\ lowest = 0
    /\ highest = 0

\* The call leaves DEBUG_LEVEL as its course t ends; lowest and highest
\* record the values DEBUG_LEVEL took during the call.
Indented(t) ==
    /\ DEBUG_LEVEL' = t.lvl
    /\ lowest' = t.low
    /\ highest' = t.high

CallWut ==
    /\ fn = "wut" /\ res = Pending
    /\ res' = wut(arg, FALSE)
    /\ Indented(PrimitiveLevel(arg, Val(_wut(arg), FALSE),
                               Running(DEBUG_LEVEL)))
    /\ UNCHANGED <<fn, arg>>

CallLus ==
    /\ fn = "lus" /\ res = Pending
    /\ res' = lus(arg, FALSE)
    /\ Indented(PrimitiveLevel(arg, Val(_lus(arg), FALSE),
                               Running(DEBUG_LEVEL)))
    /\ UNCHANGED <<fn, arg>>

CallTis ==
    /\ fn = "tis" /\ res = Pending
    /\ res' = tis(arg, FALSE)
    /\ Indented(PrimitiveLevel(arg, _tis(arg), Running(DEBUG_LEVEL)))
    /\ UNCHANGED <<fn, arg>>

CallFas ==
    /\ fn = "fas" /\ res = Pending
    /\ res' = fas(arg, FALSE)
    /\ Indented(PrimitiveLevel(arg, _fas(arg[2], arg[3], MaxFasDepth),
                               Running(DEBUG_LEVEL)))
    /\ UNCHANGED <<fn, arg>>

CallTar ==
    /\ fn = "tar" /\ res = Pending
    /\ res' = tar(arg, MaxDepth, FALSE)
    /\ Indented(TarLevel(arg, MaxDepth, Running(DEBUG_LEVEL), 0))
    /\ UNCHANGED <<fn, arg>>

\* _t(*arg): the construction helper applied to an argument list.
CallT ==
    /\ fn = "_t" /\ res = Pending
    /\ res' = Val(_t(Elems(arg)), FALSE)
    /\ UNCHANGED <<fn, arg, DEBUG_LEVEL, lowest, highest>>

Next == CallWut \/ CallLus \/ CallTis \/ CallFas \/ CallTar \/ CallT

Spec == Init /\ [][Next]_vars

\* ------------------------------------------------- reading a finished call
TarDone == fn = "tar" /\ res.k # "pending"

FasDone == fn = "fas" /\ res.k # "pending"

\* The argument of tar as the noun (subject, formula).
Subj == _t(Elems(arg))[2]

Form == _t(Elems(arg))[3]

IsCell(x) == IsTuple(x)

\* reduce((s, f)) as a caller gets it from the public tar.
Reduce(s, f) == tar(T(<<s, f>>), MaxDepth, FALSE)

\* reduce((s, f)) when n tar calls are already open.
ReduceAt(n, s, f) == tar(T(<<s, f>>), MaxDepth - n, FALSE)

\* Two calls end the same way: the same noun or the same exception.
SameOutcome(r1, r2) == r1.k = r2.k /\ r1.v = r2.v

\* The formula is (6, b, c, d).
IsIf == /\ IsCell(Form) /\ Form[2] = I(OP_IF)
        /\ IsCell(Form[3]) /\ IsCell(Form[3][3])

IfTest == Form[3][2]

IfThen == Form[3][3][2]

IfElse == Form[3][3][3]

\* The formula is (10, (b_tag, c), d).
IsCellHint == /\ IsCell(Form) /\ Form[2] = I(OP_H10)
              /\ IsCell(Form[3]) /\ IsCell(Form[3][2])

HintFormula == Form[3][2][3]

HintBody == Form[3][3]

\* ------------------------------------------------------------------ C1
\* C1: when the test b of (6, b, c, d) reduces to a noun other than the
\* atoms 0 and 1, the reduction of (s, (6, b, c, d)) returns no noun.
C1_NonBooleanTestCrashes ==
    (TarDone /\ IsIf) =>
        LET t == Reduce(Subj, IfTest) IN
        (t.k = "val" /\ t.v \notin {I(YES), I(NO)}) => res.k # "val"

\* ------------------------------------------------------------------ C2
\* C2: the reduction of (s, (10, (b_tag, c), d)) reduces c against s,
\* crashes when that crashes, and otherwise returns reduce((s, d)).
C2_CellHintEvaluatesTail ==
    (TarDone /\ IsCellHint) =>
        LET rc == Reduce(Subj, HintFormula)
            rd == Reduce(Subj, HintBody)
        IN  /\ (rc.k = "val" /\ rd.k = "val" /\ res.k = "val") => res.v = rd.v
            /\ rc.k = "TypeError" => res.k # "val"

\* ------------------------------------------------------------------ C3
\* Rule 28 reduces the test eight tar calls below the call for
\* (6, b, c, d) and the chosen branch two calls below it.
TestNesting == 8

BranchNesting == 2

\* C3: when the test b of (6, b, c, d) reduces to 0 the reduction ends as
\* reduce((s, c)) ends, whatever d is, and when b reduces to 1 it ends as
\* reduce((s, d)) ends, whatever c is.
C3_BooleanTestPicksOneBranch ==
    (TarDone /\ IsIf) =>
        LET t == ReduceAt(TestNesting, Subj, IfTest) IN
        /\ (t.k = "val" /\ t.v = I(YES)) =>
               SameOutcome(res, ReduceAt(BranchNesting, Subj, IfThen))
        /\ (t.k = "val" /\ t.v = I(NO)) =>
               SameOutcome(res, ReduceAt(BranchNesting, Subj, IfElse))

\* The test is 0, the else branch d crashes, and the call returns the noun
\* of the then branch.
C3_Witness ==
    /\ TarDone /\ IsIf
    /\ ReduceAt(TestNesting, Subj, IfTest) = Val(I(YES), FALSE)
    /\ Reduce(Subj, IfElse).k = "TypeError"
    /\ res.k = "val" /\ res.v = Reduce(Subj, IfThen).v /\ ~res.caught

\* ------------------------------------------------------------------ C4
\* The formula is (op, rest) with an atom op above 10.
IsInvalidOp == IsCell(Form) /\ IsInt(Form[2]) /\ Form[2][2] > OP_H10

\* C4: the public tar of (s, (op, rest)) with an atom op outside 0..10
\* raises an exception and returns nothing.
C4_InvalidOpcodeCrashes ==
    (TarDone /\ IsInvalidOp) => res.k = "TypeError" /\ res.v = NoValue

C4_Witness == TarDone /\ IsInvalidOp /\ Form[2] = I(11) /\ IsCell(Subj)

\* ------------------------------------------------------------------ C5
\* The path of address n >= 1: the bits of n after its leading 1 bit.
RECURSIVE PathOf(_)
PathOf(n) == IF n = 1 THEN <<>> ELSE Append(PathOf(n \div 2), n % 2)

\* Following a path from the root of x, 0 to the head and 1 to the tail:
\* <<TRUE, sub-noun>>, or <<FALSE, atom>> when an atom is in the way.
RECURSIVE Walk(_, _)
Walk(x, path) ==
    IF path = <<>> THEN <<TRUE, x>>
    ELSE IF IsInt(x) THEN <<FALSE, x>>
    ELSE Walk(x[2 + path[1]], Tail(path))

\* The argument of fas is (n, x) with an atom n >= 1.
IsAddress == IsInt(arg[2]) /\ arg[2][2] >= 1

FasPath == PathOf(arg[2][2])

FasNoun == _aorc(arg[3])

\* C5: slot(n, x) with n >= 2 returns no noun when the path of n needs the
\* head or tail of an atom.
C5_SlotIntoAtomFails ==
    (FasDone /\ IsAddress /\ arg[2][2] >= 2 /\ ~Walk(FasNoun, FasPath)[1])
        => res.k # "val"

\* ------------------------------------------------------------------ C6
\* C6: reduce((s, f)) returns no noun when the formula f is an atom.
C6_AtomFormulaCrashes == (TarDone /\ IsInt(Form)) => res.k # "val"

\* ------------------------------------------------------------------ C7
\* C7: reduce((s, (0, b))) returns no noun when the address b is a cell.
C7_CellAddressCrashes ==
    (TarDone /\ IsCell(Form) /\ Form[2] = I(OP_FAS) /\ IsCell(Form[3]))
        => res.k # "val"

\* ------------------------------------------------------------------ C8
\* C8: slot(n, x) is the sub-noun at the end of the path of n whenever x
\* has that path, and the argument is left as it was.
C8_SlotFollowsPath ==
    /\ [](FasDone /\ IsAddress /\ Walk(FasNoun, FasPath)[1]
              => res = Val(Walk(FasNoun, FasPath)[2], FALSE))
    /\ [][fn = "fas" => arg' = arg]_vars

\* A path of two or more steps that ends on a cell.
C8_Witness ==
    /\ FasDone /\ IsAddress /\ Len(FasPath) >= 2
    /\ Walk(FasNoun, FasPath)[1] /\ IsCell(res.v)

\* ------------------------------------------------------------------ C9
\* C9: a reduction in which an exception was raised returns no noun: no
\* exception raised below the public tar is caught and turned into a noun.
C9_CrashNeverBecomesValue == (TarDone /\ res.caught) => res.k # "val"

\* ----------------------------------------------------------------- C10
\* The formula is (b, c) with a cell b.
IsAutocons == IsCell(Form) /\ IsCell(Form[2])

\* Rule 19 reduces both halves one tar call below the call for (b, c).
HalfNesting == 1

\* C10: the reduction of (s, (b, c)) with a cell b is the cell of
\* reduce((s, b)) and reduce((s, c)), the first exception of the two when
\* one is raised.
C10_Autocons ==
    (TarDone /\ IsAutocons) =>
        LET rb == ReduceAt(HalfNesting, Subj, Form[2])
            rc == ReduceAt(HalfNesting, Subj, Form[3])
        IN  /\ (rb.k = "val" /\ rc.k = "val") =>
                   res.k = "val" /\ res.v = T(<<rb.v, rc.v>>)
            /\ rb.k # "val" => SameOutcome(res, rb)
            /\ (rb.k = "val" /\ rc.k # "val") => SameOutcome(res, rc)

\* Both halves return a noun, two different ones, from a cell subject.
C10_Witness ==
    /\ TarDone /\ IsAutocons /\ IsCell(Subj)
    /\ res.k = "val" /\ res.v[2] # res.v[3]
    /\ res.v[2] = Reduce(Subj, Form[2]).v

\* ----------------------------------------------------------------- C11
\* The formula is (2, b, c).
IsCompose == IsCell(Form) /\ Form[2] = I(OP_TAR) /\ IsCell(Form[3])

\* Rule 23 makes its three reductions one tar call below the call for
\* (2, b, c).
ComposeNesting == 1

\* C11: the reduction of (s, (2, b, c)) ends as the reduction of
\* (reduce((s, b)), reduce((s, c))) ends: the product of b is the new
\* subject and the product of c the new formula, and an exception of b,
\* or else of c, leaves the call.
C11_Compose ==
    (TarDone /\ IsCompose) =>
        LET rb == ReduceAt(ComposeNesting, Subj, Form[3][2])
            rc == ReduceAt(ComposeNesting, Subj, Form[3][3])
        IN  /\ rb.k # "val" => SameOutcome(res, rb)
            /\ (rb.k = "val" /\ rc.k # "val") => SameOutcome(res, rc)
            /\ (rb.k = "val" /\ rc.k = "val") =>
                   SameOutcome(res, ReduceAt(ComposeNesting, rb.v, rc.v))

\* b yields a cell that is not the subject, c yields a formula that is not
\* that cell, and the call returns the noun of the fresh reduction.
C11_Witness ==
    /\ TarDone /\ IsCompose /\ res.k = "val" /\ ~res.caught
    /\ LET rb == Reduce(Subj, Form[3][2])
           rc == Reduce(Subj, Form[3][3])
       IN  /\ rb.k = "val" /\ rc.k = "val"
           /\ IsCell(rb.v) /\ rb.v # Subj /\ rb.v # rc.v
           /\ res.v = Reduce(rb.v, rc.v).v /\ res.v # rb.v

\* ----------------------------------------------------------------- C12
\* The formula is (8, b, c).
IsPush == IsCell(Form) /\ Form[2] = I(OP_H08) /\ IsCell(Form[3])

\* Through the tuple of rule 30 and rules 29, 23, 19, 29 and 23 the code
\* reduces b six tar calls below the call for (8, b, c), and through rules
\* 29 and 23 it reduces c three calls below it.
PushValueNesting == 6

PushBodyNesting == 3

\* C12: with v the product of reduce((s, b)), the reduction of
\* (s, (8, b, c)) ends as reduce(((v, s), c)) ends; an exception of b
\* leaves the call.
C12_Push ==
    (TarDone /\ IsPush) =>
        LET v == ReduceAt(PushValueNesting, Subj, Form[3][2]) IN
        /\ v.k = "val" =>
               SameOutcome(res, ReduceAt(PushBodyNesting,
                                         T(<<v.v, Subj>>), Form[3][3]))
        /\ v.k # "val" => SameOutcome(res, v)

\* v is not the subject, c returns a cell that holds both v and the
\* subject, and no exception was swallowed.
C12_Witness ==
    /\ TarDone /\ IsPush /\ res.k = "val" /\ ~res.caught
    /\ LET v == Reduce(Subj, Form[3][2]) IN
       /\ v.k = "val" /\ v.v # Subj
       /\ res.v = T(<<v.v, Subj>>)
       /\ res.v = Reduce(T(<<v.v, Subj>>), Form[3][3]).v

\* ----------------------------------------------------------------- C13
\* The formula is (9, b, c) with an atom b.
IsInvoke == /\ IsCell(Form) /\ Form[2] = I(OP_H09)
            /\ IsCell(Form[3]) /\ IsInt(Form[3][2])

InvokeAddr == Form[3][2][2]

\* Through the tuple of rule 31 and rules 29 and 23 the code reduces c
\* three tar calls below the call for (9, b, c), and through rule 23 again
\* it reduces the formula taken from the core four calls below it.
CoreNesting == 3

ArmNesting == 4

\* C13: with core the product of reduce((s, c)) and b an address whose
\* path the core has, the reduction of (s, (9, b, c)) ends as
\* reduce((core, slot(b, core))) ends; an exception of c leaves the call.
C13_Invoke ==
    (TarDone /\ IsInvoke) =>
        LET core == ReduceAt(CoreNesting, Subj, Form[3][3]) IN
        /\ (core.k = "val" /\ InvokeAddr >= 1
               /\ Walk(core.v, PathOf(InvokeAddr))[1]) =>
               SameOutcome(res,
                   ReduceAt(ArmNesting, core.v,
                            Walk(core.v, PathOf(InvokeAddr))[2]))
        /\ core.k # "val" => SameOutcome(res, core)

\* The core is not the subject, the formula at b is a cell inside the core
\* and the call returns the noun of that formula against the core.
C13_Witness ==
    /\ TarDone /\ IsInvoke /\ InvokeAddr >= 2
    /\ res.k = "val" /\ ~res.caught
    /\ LET core == Reduce(Subj, Form[3][3]) IN
       /\ core.k = "val" /\ core.v # Subj
       /\ Walk(core.v, PathOf(InvokeAddr))[1]
       /\ IsCell(Walk(core.v, PathOf(InvokeAddr))[2])
       /\ res.v = Reduce(core.v, Walk(core.v, PathOf(InvokeAddr))[2]).v
       /\ res.v # Reduce(Subj, Walk(core.v, PathOf(InvokeAddr))[2]).v

\* ----------------------------------------------------------------- C14
TDone == fn = "_t" /\ res.k # "pending"

\* The noun of a flat sequence, built from its last element leftwards: one
\* element a gives (a, 0), and a1..an gives (a1, (a2, (... (a(n-1), an)))).
RECURSIVE Construct(_), FoldRight(_, _, _)
Construct(x) ==
    IF IsInt(x) THEN x
    ELSE IF Len(Elems(x)) = 1 THEN T(<<Construct(x[2]), I(0)>>)
    ELSE FoldRight(Elems(x), Len(Elems(x)) - 1, Construct(x[Len(x)]))

FoldRight(q, i, acc) ==
    IF i = 0 THEN acc
    ELSE FoldRight(q, i - 1, T(<<Construct(q[i]), acc>>))

\* A noun: an atom or a pair of nouns.
RECURSIVE IsNoun(_)
IsNoun(x) == IsInt(x) \/ (Len(x) = 3 /\ IsNoun(x[2]) /\ IsNoun(x[3]))

\* C14: _t builds the right-associated noun of its argument list, with a
\* trailing 0 after a single element and every element that is a sequence
\* built the same way, and building the result again returns it unchanged.
C14_RightAssociates ==
    TDone =>
        /\ res = Val(Construct(arg), FALSE)
        /\ IsNoun(res.v)
        /\ _t(Elems(res.v)) = res.v
        /\ _aorc(res.v) = res.v

\* Three or more arguments, one of them a sequence of one element and one
\* a sequence of three or more.
C14_Witness ==
    /\ TDone /\ Len(Elems(arg)) >= 3
    /\ \E i \in 2..Len(arg) : IsTuple(arg[i]) /\ Len(Elems(arg[i])) = 1
    /\ \E i \in 2..Len(arg) : IsTuple(arg[i]) /\ Len(Elems(arg[i])) >= 3
    /\ IsCell(res.v[3]) /\ IsCell(res.v[3][3])

\* ----------------------------------------------------------------- C15
\* The argument of fas is (n, x) with an atom n of 0 or less.
IsNoAddress == IsInt(arg[2]) /\ arg[2][2] <= 0

\* C15: slot(n, x) with n <= 0 returns no noun, whatever x is: the call
\* ends in RuntimeError; and so does reduce((s, (0, 0))).
C15_AddressZeroCrashes ==
    /\ (FasDone /\ IsNoAddress) =>
           res.k = "RuntimeError" /\ res.v = NoValue
    /\ (TarDone /\ Form = T(<<I(OP_FAS), I(0)>>)) =>
           res.k = "RuntimeError" /\ res.v = NoValue

\* Address 0 into a cell ends in RuntimeError.
C15_Witness ==
    /\ FasDone /\ arg[2] = I(0) /\ IsCell(FasNoun)
    /\ res.k = "RuntimeError"

\* ----------------------------------------------------------------- C16
\* C16: a call of wut, lus, tis, fas or tar, whether it returns a noun or
\* raises an exception, leaves DEBUG_LEVEL at the value it had before the
\* call, and DEBUG_LEVEL is never below that value during the call.
C16_DebugLevelBalanced ==
    [][(fn \in {"wut", "lus", "tis", "fas", "tar"} /\ res' # res) =>
           (DEBUG_LEVEL' = DEBUG_LEVEL /\ lowest' >= DEBUG_LEVEL)]_vars

\* A tar call that raised TypeError with six or more with statements open
\* and left DEBUG_LEVEL at 0.
C16_Witness ==
    /\ TarDone /\ res.k = "TypeError"
    /\ highest >= 6 /\ DEBUG_LEVEL = 0 /\ lowest = 0

====
